---- MODULE Spec2Model ----
(***************************************************************************)
(* Model of the "Process PDFs" run of src/pdf_uploader.py: connection to   *)
(* the index, the per-file loop (temporary file, extraction, chunking,     *)
(* batched upsert under each source format, result record, cleanup), the   *)
(* optional test document and the final summary.                           *)
(*                                                                         *)
(* Strings that are inspected character-wise (file names, source formats)  *)
(* are sequences of tokens in which each path separator is a token of its  *)
(* own.  Progress values are exact rationals <<numerator, denominator>>.   *)
(***************************************************************************)
EXTENDS Integers, Sequences, FiniteSets, TLC

\* ---------------------------------------------------------------- bounds
MaxFiles == 2          \* at most this many uploaded files in a run
MaxPages == 3          \* at most this many pages returned by the loader

\* ------------------------------------------------------ program constants
batch_size == 50

OptBackslash == "cleaned_pdfs\\filename.pdf"
OptSlash == "cleaned_pdfs/filename.pdf"
OptBare == "filename.pdf (no prefix)"
OptAll == "All formats (try all)"
FormatOptions == {OptBackslash, OptSlash, OptBare, OptAll}

LoadMsg == "invalid pdf"
UpsertMsg == "upsert rejected"
UnlinkMsg == "cannot delete temporary file"
WriteMsg == "cannot write temporary file"
ConnectMsg == "index unreachable"

\* ---------------------------------------------------------------- inputs
\* The name of the k-th uploaded file (1-based): names alternate between a
\* bare name and a name that carries a directory component.
NameOf(k) == IF k % 2 = 1 THEN <<"a.pdf">> ELSE <<"docs", "/", "b.pdf">>

\* The number of chunks the splitter produces from each page of a file of P
\* pages: half a batch from a page that bears text; a file of one page may
\* also be blank and yield none.  With up to three pages a file has 0, 25,
\* 50 or 75 chunks: no batch, a short batch, one full batch, or a full batch
\* followed by a short one.
PageChunkChoices(P) ==
    IF P = 1 THEN {0, batch_size \div 2} ELSE {batch_size \div 2}

\* ------------------------------------------------------- pure functions
Min(a, b) == IF a < b THEN a ELSE b

get_format_strings(option, filename) ==
    IF option = OptBackslash THEN << <<"cleaned_pdfs", "\\">> \o filename >>
    ELSE IF option = OptSlash THEN << <<"cleaned_pdfs", "/">> \o filename >>
    ELSE IF option = OptBare THEN << filename >>
    ELSE << <<"cleaned_pdfs", "\\">> \o filename,
            <<"cleaned_pdfs", "/">> \o filename,
            filename >>

\* Path of the temporary file made for loop index i0 (0-based).
TmpPath(i0) == <<"/", "tmp", "/", ToString(i0)>>

\* loader.load(): one Document per page, metadata source = path of the file
\* read and page = 0-indexed page number.
LoadedDocuments(path, P) ==
    [n \in 1..P |-> [page_content |-> n - 1,
                     metadata |-> [source |-> path, page |-> n - 1]]]

\* text_splitter.split_documents(): the chunks of each page in page order,
\* each chunk carrying a copy of its page's metadata; counts[n] chunks come
\* from the n-th page.
RECURSIVE SplitFrom(_, _, _)
SplitFrom(docs, counts, n) ==
    IF n > Len(docs) THEN <<>>
    ELSE [k \in 1..counts[n] |->
             [page_content |-> <<docs[n].page_content, k>>,
              metadata |-> docs[n].metadata]]
         \o SplitFrom(docs, counts, n + 1)

split_documents(docs, counts) == SplitFrom(docs, counts, 1)

\* Tagging that leaves the source written by the loader in place.
Tag_KeepsLoaderSource(doc, source_format) ==
    [page_content |-> doc.page_content,
     metadata |-> [source |-> doc.metadata.source,
                   page |-> doc.metadata.page,
                   type |-> "pdf_resource",
                   upload_timestamp |-> "now",
                   diagnostic |-> "true"]]

\* Lines 307-311: the metadata written on every document of a batch.
Tag(doc, source_format) ==
    [page_content |-> doc.page_content,
     metadata |-> [source |-> source_format,
                   page |-> doc.metadata.page,
                   type |-> "pdf_resource",
                   upload_timestamp |-> "now",
                   diagnostic |-> "true"]]

\* Line 259: (i / total_files) * 0.5
FileStartProgress(i0, total) == <<i0, 2 * total>>

\* Lines 321-322: min(0.5 + ((i + end_idx / chunks) / total_files) * 0.5, 1.0)
BatchProgress(i0, end_idx, nchunks, total) ==
    LET num == total * nchunks + i0 * nchunks + end_idx
        den == 2 * total * nchunks
    IN IF num > den THEN <<1, 1>> ELSE <<num, den>>

\* ----------------------------------------------------------------- state
VARIABLES
    pc,                  \* position of the run
    uploaded_files,      \* names of the uploaded files
    format_option,
    clear_calls,         \* number of clear() calls made on the index
    i,                   \* loop index of the file loop (0-based)
    total_pages, total_chunks, file_results, all_source_formats,
    tmp_files,           \* temporary files that exist
    documents, chunked_documents, pages, chunks,
    source_formats, sf,  \* the formats of the current file, position in them
    j, batch_results,
    index_store,         \* the add_documents calls that succeeded, in order
    progress_log,        \* the values passed to progress_bar.progress
    output,              \* run-level messages shown: errors and the summary
    event                \* history: the name of the step taken last

vars == <<pc, uploaded_files, format_option, clear_calls,
          i, total_pages, total_chunks, file_results,
          all_source_formats, tmp_files, documents, chunked_documents, pages,
          chunks, source_formats, sf, j, batch_results, index_store,
          progress_log, output, event>>

config == <<uploaded_files, format_option>>
fileVars == <<documents, chunked_documents, pages, chunks, source_formats,
              sf, j, batch_results>>
totals == <<total_pages, total_chunks, all_source_formats>>

total_files == Len(uploaded_files)
pdf_path == TmpPath(i)
name == uploaded_files[i + 1]

Init ==
    /\ pc = "idle"
    /\ \E n \in 1..MaxFiles : uploaded_files = [k \in 1..n |-> NameOf(k)]
    /\ format_option \in FormatOptions
    /\ clear_calls = 0
    /\ i = 0
    /\ total_pages = 0
    /\ total_chunks = 0
    /\ file_results = <<>>
    /\ all_source_formats = <<>>
    /\ tmp_files = {}
    /\ documents = <<>>
    /\ chunked_documents = <<>>
    /\ pages = 0
    /\ chunks = 0
    /\ source_formats = <<>>
    /\ sf = 1
    /\ j = 0
    /\ batch_results = <<>>
    /\ index_store = <<>>
    /\ progress_log = <<>>
    /\ output = <<>>
    /\ event = "none"

\* Lines 610-611: the run-level handler shows "Error: <message>" and the
\* run is over.
Abort(msg) ==
    /\ pc' = "aborted"
    /\ output' = Append(output, [kind |-> "error", text |-> "Error: " \o msg])

ErrorResult(msg) ==
    [name |-> name, status |-> "Error: " \o msg, pages |-> 0, chunks |-> 0,
     sources |-> <<>>]

\* Lines 209-212: the button is pressed, the progress bar is created at 0.
ProcessPDFs ==
    /\ event' = "ProcessPDFs"
    /\ pc = "idle"
    /\ pc' = "connect"
    /\ progress_log' = Append(progress_log, <<0, 1>>)
    /\ UNCHANGED <<config, clear_calls, i, totals, file_results, tmp_files,
                   fileVars, index_store, output>>

\* Lines 218-255: connect, build the vector store and the splitter, set the
\* accumulators.  No clear() call is made here or anywhere else.  The
\* statistics of lines 225-233 are a display that only reads the index and
\* catches its own failure; they come after the connection is made.
ConnectOk ==
    /\ event' = "ConnectOk"
    /\ pc = "connect"
    /\ pc' = "file_start"
    /\ i' = 0
    /\ total_pages' = 0
    /\ total_chunks' = 0
    /\ file_results' = <<>>
    /\ all_source_formats' = <<>>
    /\ UNCHANGED <<config, clear_calls, tmp_files, fileVars, index_store,
                   progress_log, output>>

\* A failed connection that is reported while the run goes on.
ConnectFails_Continues ==
    /\ event' = "ConnectFails"
    /\ pc = "connect"
    /\ output' = Append(output,
                        [kind |-> "error", text |-> "Error: " \o ConnectMsg])
    /\ pc' = "file_start"
    /\ UNCHANGED <<config, clear_calls, i, totals, file_results, tmp_files,
                   fileVars, index_store, progress_log>>

\* Lines 221-222 raise: the run-level handler is the only one around them.
ConnectFails ==
    /\ event' = "ConnectFails"
    /\ pc = "connect"
    /\ Abort(ConnectMsg)
    /\ UNCHANGED <<config, clear_calls, i, totals, file_results, tmp_files,
                   fileVars, index_store, progress_log>>

SkippedResult ==
    [name |-> name, status |-> "Skipped - No text extracted", pages |-> 0,
     chunks |-> 0, sources |-> <<>>]

SuccessResult(np, nc, fmts, batches) ==
    [name |-> name, status |-> "Success", pages |-> np, chunks |-> nc,
     sources |-> fmts, batches |-> batches]

\* Lines 257-265: progress of the file, then the payload is written to a new
\* temporary file that is kept after it is closed (delete=False).
FileStartOk ==
    /\ event' = "FileStartOk"
    /\ pc = "file_start"
    /\ progress_log' = Append(progress_log, FileStartProgress(i, total_files))
    /\ tmp_files' = tmp_files \cup {pdf_path}
    /\ pc' = "load"
    /\ UNCHANGED <<config, clear_calls, i, totals, file_results, fileVars,
                   index_store, output>>

\* Line 264 raises: the file exists already and the statement is outside the
\* per-file try, so the run-level handler takes over.
FileStartWriteFails ==
    /\ event' = "FileStartWriteFails"
    /\ pc = "file_start"
    /\ progress_log' = Append(progress_log, FileStartProgress(i, total_files))
    /\ tmp_files' = tmp_files \cup {pdf_path}
    /\ Abort(WriteMsg)
    /\ UNCHANGED <<config, clear_calls, i, totals, file_results, fileVars,
                   index_store>>

\* Lines 269-270 raise; lines 334-341 record the error.
LoadFails ==
    /\ event' = "LoadFails"
    /\ pc = "load"
    /\ file_results' = Append(file_results, ErrorResult(LoadMsg))
    /\ pc' = "finally"
    /\ UNCHANGED <<config, clear_calls, i, totals, tmp_files, fileVars,
                   index_store, progress_log, output>>

\* An empty result handled as an extraction error.
LoadEmpty_AsError ==
    /\ event' = "LoadEmpty"
    /\ pc = "load"
    /\ documents' = <<>>
    /\ file_results' = Append(file_results, ErrorResult(LoadMsg))
    /\ pc' = "finally"
    /\ UNCHANGED <<config, clear_calls, i, totals, tmp_files,
                   chunked_documents, pages, chunks, source_formats, sf, j,
                   batch_results, index_store, progress_log, output>>

\* Lines 270-280: the loader returns no page.
LoadEmpty ==
    /\ event' = "LoadEmpty"
    /\ pc = "load"
    /\ documents' = <<>>
    /\ file_results' = Append(file_results, SkippedResult)
    /\ pc' = "finally"
    /\ UNCHANGED <<config, clear_calls, i, totals, tmp_files,
                   chunked_documents, pages, chunks, source_formats, sf, j,
                   batch_results, index_store, progress_log, output>>

\* Lines 270-283: the loader returns P >= 1 pages.
LoadPages ==
    /\ event' = "LoadPages"
    /\ pc = "load"
    /\ \E P \in 1..MaxPages :
          /\ documents' = LoadedDocuments(pdf_path, P)
          /\ pages' = P
          /\ total_pages' = total_pages + P
    /\ pc' = "split"
    /\ UNCHANGED <<config, clear_calls, i, total_chunks, all_source_formats,
                   file_results, tmp_files, chunked_documents, chunks,
                   source_formats, sf, j, batch_results, index_store,
                   progress_log, output>>

\* Lines 286-299, and lines 301-332 when there is no chunk: both loops then
\* have no iteration and the Success result is recorded at once.
Split ==
    /\ event' = "Split"
    /\ pc = "split"
    /\ \E c \in PageChunkChoices(pages) :
          LET cd == split_documents(documents, [n \in 1..pages |-> c])
              fmts == get_format_strings(format_option, name)
          IN /\ chunked_documents' = cd
             /\ chunks' = Len(cd)
             /\ total_chunks' = total_chunks + Len(cd)
             /\ source_formats' = fmts
             /\ all_source_formats' = all_source_formats \o fmts
             /\ IF Len(cd) = 0
                   THEN /\ file_results' = Append(file_results,
                               SuccessResult(pages, 0, fmts, <<>>))
                        /\ pc' = "finally"
                   ELSE /\ file_results' = file_results
                        /\ pc' = "upsert"
    /\ batch_results' = <<>>
    /\ sf' = 1
    /\ j' = 0
    /\ UNCHANGED <<config, clear_calls, i, total_pages, tmp_files, documents,
                   pages, index_store, progress_log, output>>

end_idx == Min(j + batch_size, chunks)
source_format == source_formats[sf]

\* Lines 304-311: the slice shares its documents with chunked_documents, so
\* the tagging is visible in both.
TaggedChunks ==
    [k \in 1..Len(chunked_documents) |->
        IF k > j /\ k <= end_idx
           THEN Tag(chunked_documents[k], source_format)
           ELSE chunked_documents[k]]

\* A slice that starts one document late.
batch_SkipsFirst == SubSeq(TaggedChunks, j + 2, end_idx)

batch == SubSeq(TaggedChunks, j + 1, end_idx)

\* Lines 302-332: one batch is accepted by the vector store.
UpsertOk ==
    /\ event' = "UpsertOk"
    /\ pc = "upsert"
    /\ chunked_documents' = TaggedChunks
    /\ index_store' = Append(index_store, [file |-> i, docs |-> batch])
    /\ progress_log' = Append(progress_log,
                              BatchProgress(i, end_idx, chunks, total_files))
    /\ LET br == Append(batch_results,
                        [format |-> source_format, documents |-> Len(batch)])
       IN /\ batch_results' = br
          /\ IF j + batch_size < chunks
                THEN /\ j' = j + batch_size
                     /\ UNCHANGED <<sf, file_results, pc>>
                ELSE IF sf < Len(source_formats)
                THEN /\ sf' = sf + 1
                     /\ j' = 0
                     /\ UNCHANGED <<file_results, pc>>
                ELSE /\ file_results' = Append(file_results,
                            SuccessResult(pages, chunks, source_formats, br))
                     /\ pc' = "finally"
                     /\ UNCHANGED <<sf, j>>
    /\ UNCHANGED <<config, clear_calls, i, totals, tmp_files, documents,
                   pages, chunks, source_formats, output>>

\* A rejected batch that no per-file handler catches.
UpsertFails_Uncaught ==
    /\ event' = "UpsertFails"
    /\ pc = "upsert"
    /\ chunked_documents' = TaggedChunks
    /\ Abort(UpsertMsg)
    /\ UNCHANGED <<config, clear_calls, i, totals, file_results, tmp_files,
                   documents, pages, chunks, source_formats, sf, j,
                   batch_results, index_store, progress_log>>

\* Line 314 raises; lines 334-341 record the error.
UpsertFails ==
    /\ event' = "UpsertFails"
    /\ pc = "upsert"
    /\ chunked_documents' = TaggedChunks
    /\ file_results' = Append(file_results, ErrorResult(UpsertMsg))
    /\ pc' = "finally"
    /\ UNCHANGED <<config, clear_calls, i, totals, tmp_files, documents,
                   pages, chunks, source_formats, sf, j, batch_results,
                   index_store, progress_log, output>>

\* Lines 343-345, then the loop header or the code after the loop.  The
\* checkbox add_extra_doc (line 141) is read at line 348 only, so its value
\* is drawn there.
FinallyOk ==
    /\ event' = "FinallyOk"
    /\ pc = "finally"
    /\ tmp_files' = tmp_files \ {pdf_path}
    /\ IF i + 1 < total_files
          THEN /\ i' = i + 1
               /\ pc' = "file_start"
          ELSE /\ i' = i
               /\ \E add_extra_doc \in BOOLEAN :
                     pc' = IF add_extra_doc THEN "test_doc" ELSE "finish"
    /\ UNCHANGED <<config, clear_calls, totals, file_results, fileVars,
                   index_store, progress_log, output>>

\* Line 345 raises inside the finally clause: nothing in the loop catches it.
FinallyFails ==
    /\ event' = "FinallyFails"
    /\ pc = "finally"
    /\ Abort(UnlinkMsg)
    /\ UNCHANGED <<config, clear_calls, i, totals, file_results, tmp_files,
                   fileVars, index_store, progress_log>>

TestDocSource == <<"TEST_DOCUMENT.pdf">>

test_document ==
    [page_content |-> "test",
     metadata |-> [source |-> TestDocSource, type |-> "test_document",
                   timestamp |-> "now", diagnostic |-> "true"]]

\* Lines 348-369: the test document is accepted.
TestDocOk ==
    /\ event' = "TestDocOk"
    /\ pc = "test_doc"
    /\ index_store' = Append(index_store,
                             [file |-> -1, docs |-> <<test_document>>])
    /\ all_source_formats' = Append(all_source_formats, TestDocSource)
    /\ output' = Append(output, [kind |-> "test_document"])
    /\ pc' = "finish"
    /\ UNCHANGED <<config, clear_calls, i, total_pages, total_chunks,
                   file_results, tmp_files, fileVars, progress_log>>

\* Line 363 raises outside any inner try.
TestDocFails ==
    /\ event' = "TestDocFails"
    /\ pc = "test_doc"
    /\ Abort(UpsertMsg)
    /\ UNCHANGED <<config, clear_calls, i, totals, file_results, tmp_files,
                   fileVars, index_store, progress_log>>

\* Lines 371-608: the retrieval test and the statistics only read the index
\* and catch their own failures; then progress 1.0 and the summary.
Finish ==
    /\ event' = "Finish"
    /\ pc = "finish"
    /\ progress_log' = Append(progress_log, <<1, 1>>)
    /\ output' = Append(output,
          [kind |-> "summary", files |-> total_files,
           total_pages |-> total_pages, total_chunks |-> total_chunks,
           formats |-> Len(all_source_formats), results |-> file_results])
    /\ pc' = "done"
    /\ UNCHANGED <<config, clear_calls, i, totals, file_results, tmp_files,
                   fileVars, index_store>>

Next ==
    \/ ProcessPDFs
    \/ ConnectOk
    \/ ConnectFails
    \/ FileStartOk
    \/ FileStartWriteFails
    \/ LoadFails
    \/ LoadEmpty
    \/ LoadPages
    \/ Split
    \/ UpsertOk
    \/ UpsertFails
    \/ FinallyOk
    \/ FinallyFails
    \/ TestDocOk
    \/ TestDocFails
    \/ Finish

Spec == Init /\ [][Next]_vars

\* ================================================================ claims
SelectCalls(store, f) == SelectSeq(store, LAMBDA c : c.file = f)
CallsOf(f) == SelectCalls(index_store, f)
HasSep(s) == \E k \in 1..Len(s) : s[k] \in {"/", "\\"}
Ceil(n, b) == (n + b - 1) \div b
Leq(a, b) == a[1] * b[2] <= b[1] * a[2]
Files == 0..(Len(file_results) - 1)
Status(f) == file_results[f + 1].status
UpsertErrorStatus == "Error: " \o UpsertMsg
SkipStatus == "Skipped - No text extracted"

RECURSIVE Contents(_)
Contents(calls) ==
    IF calls = <<>> THEN <<>>
    ELSE [k \in 1..Len(Head(calls).docs) |-> Head(calls).docs[k].page_content]
         \o Contents(Tail(calls))

ChunkContents == [k \in 1..chunks |-> chunked_documents[k].page_content]

\* The step FinallyOk moves on to the next file, or leaves the loop after
\* the last one.
LoopGoesOn ==
    IF i + 1 < total_files
       THEN pc' = "file_start" /\ i' = i + 1
       ELSE pc' \in {"test_doc", "finish"}

\* C1: a rejected upsert records "Error: <message>" for the file and sends
\* nothing more for it; the calls already made for the file stay in the index
\* from then on; the loop goes on with the next file, and a run that ends
\* has a result for every file.
C1_UpsertFailureContained ==
    /\ [][event' = "UpsertFails" =>
            /\ file_results' = Append(file_results,
                   [name |-> uploaded_files[i + 1],
                    status |-> UpsertErrorStatus,
                    pages |-> 0, chunks |-> 0, sources |-> <<>>])
            /\ index_store' = index_store
            /\ pc' = "finally"
            /\ i' = i]_vars
    /\ [][\A f \in Files :
            Status(f) = UpsertErrorStatus =>
               SelectCalls(index_store', f) = CallsOf(f)]_vars
    /\ [][(event' = "FinallyOk" /\ Status(i) = UpsertErrorStatus)
             => LoopGoesOn]_vars
    /\ [](pc = "done" => Len(file_results) = total_files)

\* C1 witness: a finished run whose first file failed after a batch had been
\* sent and whose second file was uploaded.
C1_Witness ==
    /\ pc = "done"
    /\ Len(file_results) = 2
    /\ Status(0) = UpsertErrorStatus
    /\ CallsOf(0) # <<>>
    /\ Status(1) = "Success"
    /\ CallsOf(1) # <<>>

\* The file of the current iteration has just been recorded as a success.
AtSuccess == pc = "finally" /\ event \in {"Split", "UpsertOk"}

FullBatchesThenLast(calls) ==
    /\ \A b \in 1..(Len(calls) - 1) : Len(calls[b].docs) = batch_size
    /\ \A b \in 1..Len(calls) :
          Len(calls[b].docs) >= 1 /\ Len(calls[b].docs) <= batch_size

NumFormats == IF format_option = OptAll THEN 3 ELSE 1

C3_ProgressMonotone ==
    format_option # OptAll =>
       /\ \A k \in 1..(Len(progress_log) - 1) :
             Leq(progress_log[k], progress_log[k + 1])
       /\ progress_log # <<>> => progress_log[1][1] = 0
       /\ pc = "done" =>
             progress_log[Len(progress_log)][1]
                = progress_log[Len(progress_log)][2]

\* C4: when the loader returns no page the file is recorded as skipped with
\* pages 0 and chunks 0, the totals and the index are left alone, no call is
\* ever made for a skipped file, and the loop goes on with the next file.
C4_ZeroPagesSkipped ==
    /\ [][event' = "LoadEmpty" =>
            /\ file_results' = Append(file_results,
                   [name |-> uploaded_files[i + 1], status |-> SkipStatus,
                    pages |-> 0, chunks |-> 0, sources |-> <<>>])
            /\ index_store' = index_store
            /\ total_pages' = total_pages
            /\ total_chunks' = total_chunks
            /\ all_source_formats' = all_source_formats
            /\ pc' = "finally"
            /\ i' = i]_vars
    /\ [](\A f \in Files : Status(f) = SkipStatus => CallsOf(f) = <<>>)
    /\ [][(event' = "FinallyOk" /\ event = "LoadEmpty") => LoopGoesOn]_vars
    /\ [](pc = "done" => Len(file_results) = total_files)

\* C4 witness: a finished run whose first file had no page and whose second
\* file was uploaded.
C4_Witness ==
    /\ pc = "done"
    /\ Len(file_results) = 2
    /\ Status(0) = SkipStatus
    /\ CallsOf(0) = <<>>
    /\ Status(1) = "Success"
    /\ CallsOf(1) # <<>>
    /\ total_pages = file_results[2].pages

\* C5 as stated: a file with at least one page and no chunk ends as
\* Skipped-NoChunks, never as Success, and nothing is sent for it.
C5_NoChunksSkipped ==
    \A f \in Files :
       (file_results[f + 1].pages >= 1 /\ file_results[f + 1].chunks = 0) =>
          /\ Status(f) # "Success"
          /\ CallsOf(f) = <<>>

\* C6 as stated: no temporary file exists when the next file starts or when
\* the run has ended (leaving aside a deletion that itself failed).
C6_TempFileReleased ==
    /\ pc = "file_start" => tmp_files = {}
    /\ (pc \in {"done", "aborted"} /\ event # "FinallyFails") => tmp_files = {}

\* C7 as stated: a failed deletion of the temporary file does not abort the
\* run.
C7_CleanupFailureIsWarning ==
    event = "FinallyFails" => pc # "aborted"

\* P(f, doc) holds of every document stored for an uploaded file f (the
\* test document left aside), SomeStored: of at least one.
AllStored(P(_, _)) ==
    \A n \in 1..Len(index_store) :
       index_store[n].file >= 0 =>
          \A m \in 1..Len(index_store[n].docs) :
             P(index_store[n].file, index_store[n].docs[m])

SomeStored(P(_, _)) ==
    \E n \in 1..Len(index_store) :
       /\ index_store[n].file >= 0
       /\ \E m \in 1..Len(index_store[n].docs) :
             P(index_store[n].file, index_store[n].docs[m])

Basename(s) ==
    IF HasSep(s)
       THEN LET last == CHOOSE k \in 1..Len(s) :
                           /\ s[k] \in {"/", "\\"}
                           /\ \A m \in (k + 1)..Len(s) : s[m] \notin {"/", "\\"}
            IN SubSeq(s, last + 1, Len(s))
       ELSE s

BareSource(f, doc) ==
    /\ ~HasSep(doc.metadata.source)
    /\ doc.metadata.source = Basename(uploaded_files[f + 1])

FormatSources(call) ==
    LET nm == uploaded_files[call.file + 1]
        bs == <<"cleaned_pdfs", "\\">> \o nm
        sl == <<"cleaned_pdfs", "/">> \o nm
        bare == ~HasSep(nm)
    IN \A m \in 1..Len(call.docs) :
          LET src == call.docs[m].metadata.source
          IN /\ \/ format_option \in {OptBackslash, OptAll} /\ src = bs
                \/ format_option \in {OptSlash, OptAll} /\ src = sl
                \/ format_option \in {OptBare, OptAll} /\ src = nm
             /\ ~HasSep(src) <=> (src = nm /\ bare)

PrefixedFirst(f, doc) ==
    f = 0 /\ doc.metadata.source = <<"cleaned_pdfs", "/", "a.pdf">>

NamedSecond(f, doc) ==
    f = 1 /\ doc.metadata.source = <<"docs", "/", "b.pdf">>

PagePlusOne(f, doc) ==
    /\ doc.metadata.page = doc.page_content[1] + 1
    /\ doc.metadata.page >= 1

\* C9 as stated: a stored segment derived from the loader's page N carries
\* page = N + 1, hence a page of at least 1.
C9_PageOneIndexed == AllStored(PagePlusOne)

AbortMessage(msg) == [kind |-> "error", text |-> "Error: " \o msg]

\* C11: when the connection to the index fails the run is aborted and stays
\* so: no file has been extracted or sent, no temporary file exists, there
\* is no per-file result and no summary, and the abort message is the only
\* output.
C11_ConnectFailureAborts ==
    event = "ConnectFails" =>
       /\ pc = "aborted"
       /\ documents = <<>> /\ chunked_documents = <<>>
       /\ index_store = <<>>
       /\ tmp_files = {}
       /\ file_results = <<>>
       /\ output = <<AbortMessage(ConnectMsg)>>

\* C11 witness: the run has been aborted by a failed connection.
C11_Witness ==
    /\ event = "ConnectFails"
    /\ pc = "aborted"
    /\ Len(output) = 1
    /\ output[1].kind = "error"

\* The run is over: the summary has been shown or the run-level handler has
\* taken over.
RunEnded == pc \in {"done", "aborted"}

\* The only run-level failure the program has: the connection (there is no
\* clear step).
RunLevelFailure == pc = "aborted" /\ event = "ConnectFails"

ResultStatuses ==
    {"Success", SkipStatus, "Skipped - No chunks generated",
     "Error: " \o LoadMsg, "Error: " \o UpsertMsg}

CompleteSummary(s) ==
    /\ s.kind = "summary"
    /\ Len(s.results) = total_files
    /\ \A k \in 1..total_files :
          /\ s.results[k].name = uploaded_files[k]
          /\ s.results[k].status \in ResultStatuses

\* C12 as stated: a run that ends without a run-level failure has produced
\* a complete summary: one result per uploaded file, in upload order, each
\* with one of the statuses; no failure met while a file is processed or
\* after the file loop prevents it.
C12_SummaryAlwaysProduced ==
    (RunEnded /\ ~RunLevelFailure) =>
       /\ output # <<>>
       /\ CompleteSummary(output[Len(output)])

RECURSIVE SumOf(_, _)
SumOf(results, field) ==
    IF results = <<>> THEN 0
    ELSE Head(results)[field] + SumOf(Tail(results), field)

\* C13 as stated: in every summary the total pages is the sum of the pages
\* of the per-file results and the total chunks is the sum of their chunks,
\* also when a file failed during upsert.
C13_TotalsAreSums ==
    \A n \in 1..Len(output) :
       output[n].kind = "summary" =>
          /\ output[n].total_pages = SumOf(output[n].results, "pages")
          /\ output[n].total_chunks = SumOf(output[n].results, "chunks")
====
